---- MODULE Spec2Model ----
(***************************************************************************)
(* Model of the Python project generator (src/python_project_generator.py). *)
(* A console line, a project name and a version are sequences of one-       *)
(* character strings; a path is a sequence of components, each component a  *)
(* sequence of strings.  log and out hold the records and the printed       *)
(* messages that tell how validate_parameters, create_project_structure and *)
(* post_process ended; the retry messages of the prompt loops are not        *)
(* recorded: a rejected line shows as pc staying at the prompt.  procs is    *)
(* the sequence of external programs run, prompts the set of prompts shown.  *)
(***************************************************************************)
EXTENDS Integers, Sequences, FiniteSets, TLC

VARIABLES pc, entrada, project_name, python_version, project_path, fs,
          valid, created, post, status, log, out, procs, prompts, today, run,
          prev

vars == <<pc, entrada, project_name, python_version, project_path, fs,
          valid, created, post, status, log, out, procs, prompts, today, run,
          prev>>

----------------------------------------------------------------------------
(* Bounds of the model *)

MaxNombreLen == 3
MaxVersionLen == 4
MaxRutaLen == 4
MaxRuns == 2
MaxDay == 2

----------------------------------------------------------------------------
(* Character strings *)

Letters == {"g", "d", "l", "s"}
Digits == {"0", "1", "2", "3", "4", "5", "6", "7", "8", "9"}
Whitespace == {" "}

DigitValue(c) ==
  CASE c = "0" -> 0 [] c = "1" -> 1 [] c = "2" -> 2 [] c = "3" -> 3
    [] c = "4" -> 4 [] c = "5" -> 5 [] c = "6" -> 6 [] c = "7" -> 7
    [] c = "8" -> 8 [] c = "9" -> 9

\* All lines of at most n characters over the alphabet chars.
Lineas(chars, n) == UNION {[1..k -> chars] : k \in 0..n}

RECURSIVE lstrip(_)
lstrip(s) ==
  IF s # <<>> /\ Head(s) \in Whitespace THEN lstrip(Tail(s)) ELSE s

RECURSIVE rstrip(_)
rstrip(s) ==
  IF s # <<>> /\ s[Len(s)] \in Whitespace
  THEN rstrip(SubSeq(s, 1, Len(s) - 1)) ELSE s

\* str.strip()
strip(s) == rstrip(lstrip(s))

\* str.lower(): the prompts' answers are written in upper and lower case
lower(s) ==
  [i \in 1..Len(s) |->
     CASE s[i] = "S" -> "s" [] s[i] = "N" -> "n" [] OTHER -> s[i]]

\* str.isidentifier(), scanned as the tokenizer does: a start character, then
\* continuation characters
RECURSIVE all_continue(_)
all_continue(s) ==
  \/ s = <<>>
  \/ /\ Head(s) \in Letters \cup Digits \cup {"_"}
     /\ all_continue(Tail(s))

isidentifier_leading_digit(s) == s # <<>> /\ all_continue(s)

isidentifier(s) ==
  /\ s # <<>>
  /\ Head(s) \in Letters \cup {"_"}
  /\ all_continue(Tail(s))

\* str.split(sep): the pieces between the occurrences of sep
RECURSIVE split(_, _)
split(s, sep) ==
  IF \A i \in 1..Len(s) : s[i] # sep
  THEN <<s>>
  ELSE LET i == CHOOSE j \in 1..Len(s) :
                  s[j] = sep /\ \A k \in 1..(j - 1) : s[k] # sep
       IN <<SubSeq(s, 1, i - 1)>> \o split(SubSeq(s, i + 1, Len(s)), sep)

\* The digits of an integer literal: groups of digits separated by single
\* underscores
RECURSIVE digit_groups(_, _)
digit_groups(s, after_digit) ==
  IF s = <<>> THEN after_digit
  ELSE IF Head(s) \in Digits THEN digit_groups(Tail(s), TRUE)
  ELSE IF Head(s) = "_" THEN after_digit /\ digit_groups(Tail(s), FALSE)
  ELSE FALSE

RECURSIVE digits_value(_, _)
digits_value(s, acc) ==
  IF s = <<>> THEN acc
  ELSE IF Head(s) = "_" THEN digits_value(Tail(s), acc)
  ELSE digits_value(Tail(s), 10 * acc + DigitValue(Head(s)))

\* int(s): surrounding whitespace and one sign are accepted; anything else
\* raises ValueError (ok = FALSE)
int(s) ==
  LET t == strip(s)
      signed == t # <<>> /\ Head(t) \in {"+", "-"}
      body == IF signed THEN Tail(t) ELSE t
      mag == digits_value(body, 0)
  IN IF digit_groups(body, FALSE)
     THEN [ok |-> TRUE, val |-> IF signed /\ Head(t) = "-" THEN 0 - mag ELSE mag]
     ELSE [ok |-> FALSE, val |-> 0]

----------------------------------------------------------------------------
(* Paths and the file system *)

Dir(w) == [kind |-> "dir", content |-> <<>>, target |-> <<>>, w |-> w]
File(c) == [kind |-> "file", content |-> c, target |-> <<>>, w |-> TRUE]
Link(t) == [kind |-> "link", content |-> <<>>, target |-> t, w |-> TRUE]

\* Path(__file__).parent.parent.resolve(): the generator's install directory
generator_path == << <<"d">>, <<"g">> >>
\* os.getcwd(): the generator is started from its install directory
Cwd == generator_path
\* the user's home directory, "~"
Home == <<"/", "d">>

parent(p) == SubSeq(p, 1, Len(p) - 1)

\* a in b.parents
in_parents(a, b) == Len(a) < Len(b) /\ SubSeq(b, 1, Len(a)) = a

\* os.path.expanduser: a leading "~" alone or before a separator is the home
expanduser(s) ==
  IF s # <<>> /\ Head(s) = "~" /\ (Len(s) = 1 \/ s[2] = "/")
  THEN Home \o Tail(s) ELSE s

is_absolute(s) == s # <<>> /\ Head(s) = "/"

\* os.path.realpath: walks the components from cur, skipping "" and ".",
\* stepping up on "..", and following symbolic links; ok = FALSE is a loop
RECURSIVE realpath(_, _, _, _)
realpath(f, cur, rest, fuel) ==
  IF rest = <<>> THEN [ok |-> TRUE, path |-> cur]
  ELSE LET c == Head(rest) IN
    IF c = <<>> \/ c = <<".">> THEN realpath(f, cur, Tail(rest), fuel)
    ELSE IF c = <<".", ".">>
    THEN realpath(f, IF cur = <<>> THEN <<>> ELSE parent(cur), Tail(rest), fuel)
    ELSE LET nxt == Append(cur, c) IN
      IF nxt \in DOMAIN f /\ f[nxt].kind = "link"
      THEN IF fuel = 0 THEN [ok |-> FALSE, path |-> <<>>]
           ELSE realpath(f, <<>>, f[nxt].target \o Tail(rest), fuel - 1)
      ELSE realpath(f, nxt, Tail(rest), fuel)

\* a resolution that normalises the text and follows no symbolic link
resolve_lexical(f, s) ==
  realpath(<<>>, IF is_absolute(s) THEN <<>> ELSE Cwd, split(s, "/"), 0)

\* Path(s).resolve() of a typed line s
resolve(f, s) ==
  realpath(f, IF is_absolute(s) THEN <<>> ELSE Cwd, split(s, "/"),
           Cardinality(DOMAIN f))

\* resolve() of a path object: a resolved directory joined with names
resolve_path(f, p) == realpath(f, <<>>, p, Cardinality(DOMAIN f))

\* Path.exists(), is_dir(), is_file(): all follow symbolic links
exists(f, p) ==
  LET r == resolve_path(f, p) IN r.ok /\ r.path \in DOMAIN f

is_dir(f, p) ==
  LET r == resolve_path(f, p) IN
    r.ok /\ r.path \in DOMAIN f /\ f[r.path].kind = "dir"

is_file(f, p) ==
  LET r == resolve_path(f, p) IN
    r.ok /\ r.path \in DOMAIN f /\ f[r.path].kind = "file"

\* the entries of directory p (Path.iterdir, Path.glob('*'))
iterdir(f, p) ==
  LET r == resolve_path(f, p).path IN
    {q \in DOMAIN f : Len(q) = Len(r) + 1 /\ SubSeq(q, 1, Len(r)) = r}

\* os.access(p, os.W_OK)
access_w(f, p) ==
  LET r == resolve_path(f, p) IN r.ok /\ r.path \in DOMAIN f /\ f[r.path].w

\* the prefixes of p that are missing from f, and the deepest one present
missing_dirs(f, p) == {SubSeq(p, 1, n) : n \in 1..Len(p)} \ DOMAIN f

nearest(f, p) ==
  LET ns == {n \in 0..Len(p) : SubSeq(p, 1, n) \in DOMAIN f}
  IN SubSeq(p, 1, CHOOSE n \in ns : \A m \in ns : m <= n)

\* os.makedirs(p, exist_ok=True) on a resolved path: it raises when the
\* deepest existing ancestor is no directory or cannot be written
makedirs_ok(f, p) ==
  \/ p \in DOMAIN f /\ f[p].kind = "dir"
  \/ /\ p \notin DOMAIN f
     /\ f[nearest(f, p)].kind = "dir"
     /\ f[nearest(f, p)].w

makedirs(f, p) ==
  [q \in DOMAIN f \cup missing_dirs(f, p) |->
     IF q \in DOMAIN f THEN f[q] ELSE Dir(TRUE)]

\* open(p, 'w').write(c) succeeds in an existing directory, on no directory
write_ok(f, p) ==
  /\ p # <<>>
  /\ parent(p) \in DOMAIN f /\ f[parent(p)].kind = "dir"
  /\ (p \in DOMAIN f => f[p].kind = "file")

write_file(f, p, c) ==
  [q \in DOMAIN f \cup {p} |-> IF q = p THEN File(c) ELSE f[q]]

\* Path.unlink() of one entry
unlink(f, p) == [q \in DOMAIN f \ {p} |-> f[q]]

\* shutil.rmtree(p): p and everything beneath it
rmtree(f, p) ==
  [q \in {x \in DOMAIN f : x # p /\ ~in_parents(p, x)} |-> f[q]]

----------------------------------------------------------------------------
(* Templates.  A template is a sequence of parts: literal text, or a field   *)
(* written {field} in the source string.  A file's content is a sequence of   *)
(* pieces: literal text, a substituted value, or a field left in braces.      *)

L(text) == [k |-> "lit", v |-> <<text>>]
F(field) == [k |-> "field", v |-> <<field>>]

\* the value of a field: self.project_name, self.python_version,
\* self.python_version.replace(".", "") and datetime.now().strftime('%Y-%m-%d')
\* and, in the documentation, datetime.now().strftime("%Y-%m-%d %H:%M:%S");
\* date is the clock: the day and the instant within it
field_value(field, name, version, date) ==
  CASE field = "self.project_name" -> name
    [] field = "self.python_version" -> version
    [] field = "self.python_version.replace" ->
         SelectSeq(version, LAMBDA c : c # ".")
    [] field = "datetime.now.date" -> <<ToString(date.day)>>
    [] field = "datetime.now.time" ->
         <<ToString(date.day), ToString(date.instant)>>

\* an f-string literal: every field is replaced by its value
fstring(tpl, name, version, date) ==
  [i \in 1..Len(tpl) |->
     IF tpl[i].k = "field"
     THEN [k |-> "val", v |-> field_value(tpl[i].v[1], name, version, date)]
     ELSE tpl[i]]

\* a plain string literal: the braces and the field's text stay as written
plain(tpl) ==
  [i \in 1..Len(tpl) |->
     IF tpl[i].k = "field" THEN [k |-> "brace", v |-> tpl[i].v] ELSE tpl[i]]

\* _get_file_templates: relative path, source text, whether it is an f-string
file_templates ==
  << [path |-> << <<"README.md">> >>, f |-> TRUE,
      text |-> << L("# "), F("self.project_name"),
                  L("## Instalacion ... conda activate "),
                  F("self.project_name"),
                  L("pip install -r requirements.txt ... ## Uso") >>],
     [path |-> << <<"requirements.txt">> >>, f |-> FALSE,
      text |-> << L("black==22.3.0 ... python-dotenv==0.20.0") >>],
     [path |-> << <<"environment.yml">> >>, f |-> TRUE,
      text |-> << L("name: "), F("self.project_name"),
                  L("channels: ... dependencies: - python="),
                  F("self.python_version"),
                  L("- pip ... - pre-commit") >>],
     [path |-> << <<".gitignore">> >>, f |-> FALSE,
      text |-> << L("# Python __pycache__/ ... # Logs *.log") >>],
     [path |-> << <<"src">>, <<"__init__.py">> >>, f |-> FALSE, text |-> <<>>],
     [path |-> << <<"src">>, <<"main.py">> >>, f |-> TRUE,
      text |-> << L("#!/usr/bin/env python3 "), F("self.project_name"),
                  L(" - Descripcion corta aqui ... Date: "),
                  F("datetime.now.date"),
                  L("def main(): ... print(Bienvenido a "),
                  F("self.project_name"), L("!) ... main()") >>],
     [path |-> << <<"tests">>, <<"__init__.py">> >>, f |-> FALSE, text |-> <<>>],
     [path |-> << <<"tests">>, <<"test_main.py">> >>, f |-> FALSE,
      text |-> << L("import pytest ... assert True") >>],
     [path |-> << <<"docs">>, <<"README.md">> >>, f |-> TRUE,
      text |-> << L("# Documentacion de "), F("self.project_name"),
                  L("## Estructura del Proyecto ... ## Guias de Desarrollo") >>],
     [path |-> << <<".env.example">> >>, f |-> FALSE,
      text |-> << L("# Variables de entorno del proyecto DEBUG=True API_KEY=") >>]
  >>

\* versioning_files of _create_versioning_files
versioning_files ==
  << [path |-> << <<".gitignore">> >>, f |-> FALSE,
      text |-> << L("# Python ... # Coverage ... # Testing ... logs/") >>],
     [path |-> << <<".env.example">> >>, f |-> FALSE,
      text |-> << L("# Configuracion del proyecto PROJECT_NAME="),
                  F("self.project_name"), L("PYTHON_VERSION="),
                  F("self.python_version"),
                  L("DATABASE_URL=... LOG_FILE=app.log") >>],
     [path |-> << <<"pyproject.toml">> >>, f |-> TRUE,
      text |-> << L("[tool.black] line-length = 88 target-version = ['py"),
                  F("self.python_version.replace"),
                  L("'] ... [tool.isort] ... [tool.pytest.ini_options]") >>],
     [path |-> << <<".flake8">> >>, f |-> FALSE,
      text |-> << L("[flake8] max-line-length = 88 ... max-complexity = 10") >>],
     [path |-> << <<".pre-commit-config.yaml">> >>, f |-> FALSE,
      text |-> << L("repos: ... black ... isort ... flake8") >>]
  >>

\* the content string of generate_documentation (an f-string)
documentation_template ==
  [path |-> << <<"documentation.txt">> >>, f |-> TRUE,
   text |-> << L("DOCUMENTACION DEL PROYECTO Generado: "),
               F("datetime.now.time"),
               L("Nombre del proyecto: "), F("self.project_name"),
               L("Version de Python: "), F("self.python_version"),
               L("2. ESTRUCTURA ... conda activate "), F("self.project_name"),
               L("... 6. SIGUIENTES PASOS") >>]

\* templates that all carry the instant of their generation
render_stamped(t, name, version, date) ==
  (IF t.f THEN fstring(t.text, name, version, date) ELSE plain(t.text))
  \o <<[k |-> "val", v |-> field_value("datetime.now.time", name, version, date)]>>

\* the string a template entry evaluates to
render(t, name, version, date) ==
  IF t.f THEN fstring(t.text, name, version, date) ELSE plain(t.text)

----------------------------------------------------------------------------
(* The state after the interpreter starts main() *)

Str(text) == <<text>>

\* the files the machine holds before the first run: a root nobody may write,
\* the home directory /d with the generator installed in /d/g, and /l, a
\* symbolic link to the install directory
BaseFS ==
  LET g == generator_path IN
    (<<>> :> Dir(FALSE))
    @@ (<< <<"d">> >> :> Dir(TRUE))
    @@ (g :> Dir(TRUE))
    @@ (Append(g, Str("src")) :> Dir(TRUE))
    @@ (g \o <<Str("src"), Str("python_project_generator.py")>>
          :> File(<<L("import os ...")>>))
    @@ (<< <<"l">> >> :> Link(g))

\* what /d/s, where a project named s goes, may hold beforehand
OldProject == << <<"d">>, <<"s">> >>

PriorTrees ==
  LET p == OldProject
      some == (p :> Dir(TRUE))
              @@ (Append(p, Str("README.md")) :> File(<<L("old readme")>>))
              @@ (Append(p, Str(".old")) :> File(<<L("old hidden file")>>))
              @@ (Append(p, Str("old")) :> Dir(TRUE))
              @@ (p \o <<Str("old"), Str("data")>> :> File(<<L("old data")>>))
  IN { <<>>,
       (p :> Dir(TRUE)),
       some,
       some @@ (Append(p, Str("lnk")) :> Link(<< <<"d">> >>)) }

Clock == [day |-> today, instant |-> run]

Log(level, msg) == <<level, msg>>

InitCommon ==
  /\ entrada = <<>>
  /\ project_name = <<>>
  /\ python_version = <<>>
  /\ project_path = <<>>
  /\ valid = "unset"
  /\ created = "unset"
  /\ post = "unset"
  /\ status = -1
  /\ log = {}
  /\ out = {}
  /\ procs = <<>>
  /\ prompts = {}
  /\ today = 1
  /\ run = 1
  /\ prev = [ok |-> FALSE, name |-> <<>>, version |-> <<>>, path |-> <<>>,
             day |-> 0, files |-> <<>>]

Init ==
  /\ pc = "nombre"
  /\ fs \in {BaseFS @@ t : t \in PriorTrees}
  /\ InitCommon

----------------------------------------------------------------------------
(* main: the name and version prompts *)

\* where the loop of a prompt stands once its input() has returned
Leido(at) ==
  CASE at = "nombre" -> "nombre_leido"
    [] at = "version" -> "version_leida"
    [] at = "ruta" -> "ruta_leida"

\* input(prompt) returns the line the user typed; at is the prompt's loop
Input(at, linea) ==
  /\ pc = at
  /\ pc' = Leido(at)
  /\ entrada' = linea
  /\ prompts' = prompts \cup {at}
  /\ UNCHANGED <<project_name, python_version, project_path, fs, valid,
                 created, post, status, log, out, procs, today, run, prev>>

\* a rejected line: the loop goes back to its input() with the line dropped
Again(at) ==
  /\ pc' = at
  /\ entrada' = <<>>

\* solicitar_nombre_proyecto, one turn of its loop on the line read
SolicitarNombre ==
  /\ pc = Leido("nombre")
  /\ LET nombre == strip(entrada) IN
       IF nombre = <<>>
       THEN \* "Error: El nombre no puede estar vacio."; continue
            /\ Again("nombre")
            /\ UNCHANGED project_name
       ELSE IF ~isidentifier(nombre)
       THEN \* "Error: El nombre debe ser un identificador valido"; continue
            /\ Again("nombre")
            /\ UNCHANGED project_name
       ELSE /\ project_name' = nombre
            /\ pc' = "version"
            /\ UNCHANGED entrada
  /\ UNCHANGED <<python_version, project_path, fs, valid, created, post,
                 status, log, out, procs, prompts, today, run, prev>>

\* major, minor = map(int, version.split('.')); major == 3 and 6 <= minor <= 12
\* (ok = FALSE is the ValueError of int() or of the unpacking)
parse_version(version) ==
  LET parts == split(version, ".") IN
    IF Len(parts) # 2 \/ ~int(parts[1]).ok \/ ~int(parts[2]).ok
    THEN [ok |-> FALSE, supported |-> FALSE]
    ELSE [ok |-> TRUE,
          supported |-> /\ int(parts[1]).val = 3
                        /\ 6 <= int(parts[2]).val
                        /\ int(parts[2]).val <= 12]

DefaultVersion == <<"3", ".", "9">>

\* solicitar_version_python, one turn of its loop on the line read
SolicitarVersion ==
  /\ pc = Leido("version")
  /\ LET version == strip(entrada) IN
       IF version = <<>>
       THEN /\ python_version' = DefaultVersion
            /\ pc' = "init"
            /\ UNCHANGED entrada
       ELSE IF ~parse_version(version).ok
       THEN \* "Error: Formato invalido. Use el formato X.Y"; the loop repeats
            /\ Again("version")
            /\ UNCHANGED python_version
       ELSE IF parse_version(version).supported
       THEN /\ python_version' = version
            /\ pc' = "init"
            /\ UNCHANGED entrada
       ELSE \* "Error: Version no soportada."; the loop repeats
            /\ Again("version")
            /\ UNCHANGED python_version
  /\ UNCHANGED <<project_name, project_path, fs, valid, created, post, status,
                 log, out, procs, prompts, today, run, prev>>

\* ProjectGenerator.__init__ and _setup_logging: the logs directory and the
\* run's log file in the install directory
LogDir == Append(generator_path, Str("logs"))
LogFile(name) == Append(LogDir, name \o <<"_generation.log">>)

_setup_logging(f, name) ==
  LET d == IF makedirs_ok(f, LogDir) THEN makedirs(f, LogDir) ELSE f
  IN IF LogFile(name) \in DOMAIN d \/ ~write_ok(d, LogFile(name))
     THEN d ELSE write_file(d, LogFile(name), <<>>)

NewProjectGenerator ==
  /\ pc = "init"
  /\ project_path' = <<>>
  /\ fs' = _setup_logging(fs, project_name)
  /\ pc' = "validate"
  /\ UNCHANGED <<entrada, project_name, python_version, valid, created, post,
                 status, log, out, procs, prompts, today, run, prev>>

----------------------------------------------------------------------------
(* validate_parameters *)

\* _is_valid_python_version
_is_valid_python_version(version) == parse_version(version).supported

\* a process whose exit status is not main's return value
Return_ignored(code) ==
  /\ status' = 0
  /\ pc' = "exit"

\* main's return: the exit status of the process
Return(code) ==
  /\ status' = code
  /\ pc' = "exit"

\* the checks of the name and the version, up to the call of
\* solicitar_ruta_proyecto
ValidateParameters ==
  /\ pc = "validate"
  /\ IF ~isidentifier(project_name)
     THEN /\ log' = log \cup {Log("INFO", "Iniciando validacion de parametros"),
                              Log("ERROR", "Nombre de proyecto invalido")}
          /\ out' = out \cup {"Error: Nombre de proyecto invalido"}
          /\ valid' = "False"
          /\ Return(1)
     ELSE IF ~_is_valid_python_version(python_version)
     THEN /\ log' = log \cup {Log("INFO", "Iniciando validacion de parametros"),
                              Log("INFO", "Nombre de proyecto validado"),
                              Log("ERROR", "Version de Python no soportada")}
          /\ out' = out \cup {"Error: Version de Python no soportada"}
          /\ valid' = "False"
          /\ Return(1)
     ELSE /\ log' = log \cup {Log("INFO", "Iniciando validacion de parametros"),
                              Log("INFO", "Nombre de proyecto validado"),
                              Log("INFO", "Version de Python validada")}
          /\ pc' = "ruta"
          /\ UNCHANGED <<out, valid, status>>
  /\ UNCHANGED <<entrada, project_name, python_version, project_path, fs,
                 created, post, procs, prompts, today, run, prev>>

\* the guard of solicitar_ruta_proyecto: the resolved path is the install
\* directory or lies beneath it
inside_generator(ruta_path) ==
  in_parents(generator_path, ruta_path) \/ ruta_path = generator_path

\* a resolution that expands and normalises and follows no symbolic link
ruta_resolve_lexical(f, ruta) == resolve_lexical(f, expanduser(ruta))

\* Path(os.path.expanduser(os.path.expandvars(ruta))).resolve(); no line of
\* the model holds a "$", so expandvars leaves every line as it is
ruta_resolve(f, ruta) == resolve(f, expanduser(ruta))

\* solicitar_ruta_proyecto, one turn of its loop on the line read; crear is
\* the answer typed if the loop asks whether to create the directory.  On
\* (True, ruta) validate_parameters sets project_path (line 123).
SolicitarRuta(crear) ==
  /\ pc = Leido("ruta")
  /\ LET ruta == strip(entrada)
         r == ruta_resolve(fs, ruta)
     IN
       IF ruta = <<>>
       THEN \* "Error: Debe especificar una ruta."; continue
            /\ Again("ruta")
            /\ UNCHANGED <<fs, project_path, valid, status, log, out, prompts>>
       ELSE IF ~r.ok
       THEN \* resolve() raised: (False, "Error inesperado"), validation fails
            /\ log' = log \cup
                        {Log("ERROR", "Error inesperado al procesar la ruta"),
                         Log("ERROR", "Error en la validacion de ruta")}
            /\ out' = out \cup {"Error: Error inesperado"}
            /\ valid' = "False"
            /\ Return(1)
            /\ UNCHANGED <<fs, project_path, entrada, prompts>>
       ELSE IF inside_generator(r.path)
       THEN \* "Error: No se puede crear el proyecto dentro del directorio
            \* del generador."; continue
            /\ Again("ruta")
            /\ UNCHANGED <<fs, project_path, valid, status, log, out, prompts>>
       ELSE IF ~exists(fs, r.path) /\ lower(crear) # <<"s">>
       THEN \* the user declines to create the directory; continue
            /\ Again("ruta")
            /\ prompts' = prompts \cup {"crear"}
            /\ UNCHANGED <<fs, project_path, valid, status, log, out>>
       ELSE IF ~exists(fs, r.path) /\ ~makedirs_ok(fs, r.path)
       THEN \* "Error: No se pudo crear el directorio"; continue
            /\ Again("ruta")
            /\ prompts' = prompts \cup {"crear"}
            /\ UNCHANGED <<fs, project_path, valid, status, log, out>>
       ELSE LET made == ~exists(fs, r.path)
                f == IF made THEN makedirs(fs, r.path) ELSE fs
            IN /\ fs' = f
               /\ prompts' = prompts \cup (IF made THEN {"crear"} ELSE {})
               /\ IF ~access_w(f, r.path)
                  THEN \* "Error: No tiene permisos de escritura"; continue
                       /\ Again("ruta")
                       /\ UNCHANGED <<project_path, valid, status, log, out>>
                  ELSE /\ log' = log \cup {Log("INFO", "Ruta validada exitosamente")}
                       /\ project_path' = Append(r.path, project_name)
                       /\ pc' = "overwrite"
                       /\ UNCHANGED <<out, valid, status, entrada>>
  /\ UNCHANGED <<project_name, python_version, created, post, procs, today,
                 run, prev>>

\* a prompt whose only declining answer is n, like line 164
overwrite_declined_only_n(sobrescribir) == lower(sobrescribir) = <<"n">>

\* line 133: input(...).lower() != 's'
overwrite_declined(sobrescribir) == lower(sobrescribir) # <<"s">>

\* the rest of validate_parameters: the overwrite prompt of an existing,
\* non-empty project directory
ConfirmarSobrescritura(sobrescribir) ==
  /\ pc = "overwrite"
  /\ IF ~exists(fs, project_path)
     THEN /\ valid' = "True"
          /\ pc' = "confirm"
          /\ log' = log \cup {Log("INFO", "Todos los parametros validados exitosamente")}
          /\ UNCHANGED <<status, out, prompts, entrada>>
     ELSE IF ~is_dir(fs, project_path)
     THEN \* iterdir() raises on what is no directory
          /\ valid' = "False"
          /\ Return(1)
          /\ log' = log \cup {Log("ERROR", "Error inesperado durante la validacion")}
          /\ out' = out \cup {"Error inesperado"}
          /\ UNCHANGED <<prompts, entrada>>
     ELSE IF iterdir(fs, project_path) = {}
     THEN /\ valid' = "True"
          /\ pc' = "confirm"
          /\ log' = log \cup {Log("INFO", "Todos los parametros validados exitosamente")}
          /\ UNCHANGED <<status, out, prompts, entrada>>
     ELSE /\ prompts' = prompts \cup {"sobrescribir"}
          /\ entrada' = sobrescribir
          /\ out' = out
          /\ IF overwrite_declined(sobrescribir)
             THEN /\ valid' = "False"
                  /\ Return(1)
                  /\ log' = log \cup
                       {Log("WARNING", "Directorio existente y no vacio"),
                        Log("INFO", "Usuario cancelo la sobrescritura del directorio")}
             ELSE /\ valid' = "True"
                  /\ pc' = "confirm"
                  /\ UNCHANGED status
                  /\ log' = log \cup
                       {Log("WARNING", "Directorio existente y no vacio"),
                        Log("INFO", "Usuario confirmo sobrescribir directorio existente"),
                        Log("INFO", "Todos los parametros validados exitosamente")}
  /\ UNCHANGED <<project_name, python_version, project_path, fs, created,
                 post, procs, today, run, prev>>

----------------------------------------------------------------------------
(* create_project_structure *)

\* the except clause of create_project_structure: it logs, prints and
\* returns False, and main returns 1
CreationFails(l, o) ==
  /\ log' = l \cup {Log("ERROR", "Error durante la creacion del proyecto")}
  /\ out' = o \cup {"Error: No se pudo crear el proyecto"}
  /\ created' = "False"
  /\ Return(1)

\* the summary and the "Desea continuar? (S/n)" prompt
ConfirmarCreacion(confirmar) ==
  /\ pc = "confirm"
  /\ entrada' = confirmar
  /\ prompts' = prompts \cup {"continuar"}
  /\ out' = out \cup {"Se creara el proyecto con la siguiente configuracion"}
  /\ IF lower(confirmar) = <<"n">>
     THEN /\ log' = log \cup {Log("INFO", "Operacion cancelada por el usuario")}
          /\ created' = "False"
          /\ Return(1)
     ELSE /\ pc' = "clean"
          /\ UNCHANGED <<log, created, status>>
  /\ UNCHANGED <<project_name, python_version, project_path, fs, valid, post,
                 procs, today, run, prev>>

\* item.is_file() of an entry of the directory
item_is_file(f, item) ==
  \/ f[item].kind = "file"
  \/ f[item].kind = "link" /\ is_file(f, f[item].target)

\* the entries the loop can remove: files by unlink, directories by rmtree;
\* shutil.rmtree raises on a symbolic link
removable(f, item) == item_is_file(f, item) \/ f[item].kind = "dir"

remove_item(f, item) ==
  IF item_is_file(f, item) THEN unlink(f, item) ELSE rmtree(f, item)

\* a cleaning that removes the files and leaves the subdirectories
remove_files_only(f, items) ==
  [q \in DOMAIN f \ {i \in items : item_is_file(f, i)} |-> f[q]]

RECURSIVE remove_items(_, _)
remove_items(f, items) ==
  IF items = {} THEN f
  ELSE LET item == CHOOSE i \in items : TRUE
       IN remove_items(remove_item(f, item), items \ {item})

\* what the loop may have removed when an entry raises: any of the others
clean_orders(f, root) ==
  IF exists(f, root) /\ is_dir(f, root)
  THEN LET items == iterdir(f, root)
           raising == {i \in items : ~removable(f, i)}
       IN IF raising = {} THEN {items} ELSE SUBSET (items \ raising)
  ELSE {{}}

\* lines 168-176: the existing entries are removed, in the order glob yields
\* them; before is what the loop removed when it reaches an entry that raises
LimpiarDirectorio(before) ==
  /\ pc = "clean"
  /\ IF ~exists(fs, project_path)
     THEN /\ pc' = "mkdirs"
          /\ UNCHANGED <<fs, log, out, created, status>>
     ELSE IF ~is_dir(fs, project_path)
     THEN /\ CreationFails(log, out)
          /\ UNCHANGED fs
     ELSE LET items == iterdir(fs, project_path)
              raising == {i \in items : ~removable(fs, i)}
          IN IF items = {}
             THEN /\ pc' = "mkdirs"
                  /\ UNCHANGED <<fs, log, out, created, status>>
             ELSE IF raising = {}
             THEN /\ fs' = remove_items(fs, items)
                  /\ log' = log \cup {Log("INFO", "Limpiando directorio existente")}
                  /\ pc' = "mkdirs"
                  /\ UNCHANGED <<out, created, status>>
             ELSE /\ before \subseteq items \ raising
                  /\ fs' = remove_items(fs, before)
                  /\ CreationFails(log \cup {Log("INFO", "Limpiando directorio existente")}, out)
  /\ UNCHANGED <<entrada, project_name, python_version, project_path, valid,
                 post, procs, prompts, today, run, prev>>

\* _create_directory: os.makedirs(path, exist_ok=True); an error is logged
_create_directory(f, path) ==
  IF makedirs_ok(f, path) THEN [fs |-> makedirs(f, path), errors |-> {}]
  ELSE [fs |-> f, errors |-> {path}]

\* the base directories, in the order of the list
directories(root) ==
  << root, Append(root, Str("src")), Append(root, Str("config")),
     Append(root, Str("tests")), Append(root, Str("docs")) >>

RECURSIVE create_directories(_, _)
create_directories(f, dirs) ==
  IF dirs = <<>> THEN [fs |-> f, errors |-> {}]
  ELSE LET one == _create_directory(f, Head(dirs))
           rest == create_directories(one.fs, Tail(dirs))
       IN [fs |-> rest.fs, errors |-> one.errors \cup rest.errors]

\* lines 178-188
CrearDirectorios ==
  /\ pc = "mkdirs"
  /\ LET r == create_directories(fs, directories(project_path)) IN
       /\ fs' = r.fs
       /\ log' = log \cup (IF r.errors = {} THEN {}
                           ELSE {Log("ERROR", "Error al crear directorio")})
                     \cup (IF Cardinality(r.errors) < Len(directories(project_path))
                           THEN {Log("INFO", "Creado directorio")} ELSE {})
  /\ pc' = "files"
  /\ UNCHANGED <<entrada, project_name, python_version, project_path, valid,
                 created, post, status, out, procs, prompts, today, run, prev>>

\* _create_file: open(path, 'w') and write; an error is logged and swallowed.
\* failing is the set of paths the system refuses to write.
_create_file(f, path, content, failing) ==
  IF write_ok(f, path) /\ path \notin failing
  THEN [fs |-> write_file(f, path, content), errors |-> {}]
  ELSE [fs |-> f, errors |-> {path}]

\* for ... in files.items(): self._create_file(self.project_path / path, content)
RECURSIVE create_files(_, _, _, _, _, _, _)
create_files(f, root, ts, failing, name, version, date) ==
  IF ts = <<>> THEN [fs |-> f, errors |-> {}]
  ELSE LET t == Head(ts)
           one == _create_file(f, root \o t.path,
                               render(t, name, version, date), failing)
           rest == create_files(one.fs, root, Tail(ts), failing, name,
                                version, date)
       IN [fs |-> rest.fs, errors |-> one.errors \cup rest.errors]

file_log(r, n) ==
  (IF r.errors = {} THEN {} ELSE {Log("ERROR", "Error al crear archivo")})
  \cup (IF Cardinality(r.errors) < n THEN {Log("INFO", "Creado archivo")} ELSE {})

\* _create_project_files
CrearArchivosProyecto(failing) ==
  /\ pc = "files"
  /\ LET r == create_files(fs, project_path, file_templates, failing,
                           project_name, python_version, Clock)
     IN /\ fs' = r.fs
        /\ log' = log \cup file_log(r, Len(file_templates))
  /\ pc' = "versioning"
  /\ UNCHANGED <<entrada, project_name, python_version, project_path, valid,
                 created, post, status, out, procs, prompts, today, run, prev>>

\* _create_versioning_files
CrearArchivosVersionado(failing) ==
  /\ pc = "versioning"
  /\ LET r == create_files(fs, project_path, versioning_files, failing,
                           project_name, python_version, Clock)
     IN /\ fs' = r.fs
        /\ log' = log \cup file_log(r, Len(versioning_files))
                      \cup {Log("INFO", "Creando archivos de configuracion para versionado y calidad"),
                            Log("INFO", "Archivos de configuracion creados exitosamente")}
  /\ pc' = "git"
  /\ UNCHANGED <<entrada, project_name, python_version, project_path, valid,
                 created, post, status, out, procs, prompts, today, run, prev>>

----------------------------------------------------------------------------
(* _init_git and generate_documentation *)

\* subprocess.run(..., check=True): "ok" is exit status 0, "nonzero" raises
\* CalledProcessError, "absent" raises FileNotFoundError
Outcomes == {"ok", "nonzero", "absent"}

\* the try block of the pre-commit set-up: the install runs only after a
\* successful version probe; TRUE when neither call raised
hooks_installed(probe, install) == probe = "ok" /\ install = "ok"

hook_calls(probe, install) ==
  <<<<"pre-commit --version", probe>>>>
  \o (IF probe = "ok" THEN <<<<"pre-commit install", install>>>> ELSE <<>>)

HooksDir(root) == root \o <<Str(".git"), Str("hooks")>>

install_hooks(f, root) ==
  LET w == _create_directory(f, HooksDir(root)).fs IN
    IF write_ok(w, Append(HooksDir(root), Str("pre-commit")))
    THEN write_file(w, Append(HooksDir(root), Str("pre-commit")),
                    <<L("#!/usr/bin/env bash ... pre-commit")>>)
    ELSE w

\* git init in cwd=project_path: FileNotFoundError without the directory
git_outcome(f, root, git) == IF is_dir(f, root) THEN git ELSE "absent"

\* the calls _init_git makes: the hooks are set up only after git init
git_calls(f, root, git, probe, install) ==
  <<<<"git init", git_outcome(f, root, git)>>>>
  \o (IF git_outcome(f, root, git) = "ok" THEN hook_calls(probe, install)
      ELSE <<>>)

\* an _init_git whose outer except clause logs and does not re-raise
init_git_never_raises(f, root, git, probe, install) == FALSE

\* an _init_git without the inner try around the pre-commit calls
init_git_raises_on_hooks(f, root, git, probe, install) ==
  git_outcome(f, root, git) # "ok" \/ ~hooks_installed(probe, install)

\* whether _init_git raises: the failure of git init is re-raised, the
\* CalledProcessError and FileNotFoundError of pre-commit are caught inside
init_git_raises(f, root, git, probe, install) ==
  git_outcome(f, root, git) # "ok"

\* _init_git, and the except clause of create_project_structure it raises into
InitGit(git, probe, install) ==
  /\ pc = "git"
  /\ procs' = procs \o git_calls(fs, project_path, git, probe, install)
  /\ IF init_git_raises(fs, project_path, git, probe, install)
     THEN /\ CreationFails(log \cup {Log("ERROR", "Error al inicializar Git")}, out)
          /\ UNCHANGED fs
     ELSE /\ LET g == IF is_dir(fs, project_path)
                      THEN _create_directory(fs, Append(project_path, Str(".git"))).fs
                      ELSE fs
             IN fs' = IF hooks_installed(probe, install)
                      THEN install_hooks(g, project_path) ELSE g
          /\ log' = log \cup {Log("INFO", "Repositorio Git inicializado"),
                              IF hooks_installed(probe, install)
                              THEN Log("INFO", "pre-commit hooks instalados")
                              ELSE Log("WARNING", "pre-commit no esta instalado, saltando configuracion de hooks")}
          /\ pc' = "docs"
          /\ UNCHANGED <<out, created, status>>
  /\ UNCHANGED <<entrada, project_name, python_version, project_path, valid,
                 post, prompts, today, run, prev>>

\* generate_documentation: _create_file raises nothing, so the except of
\* lines 287-289 is never entered and the value returned is True
generate_documentation(f, root, name, version, date, failing) ==
  LET t == documentation_template
      r == _create_file(f, root \o t.path, render(t, name, version, date),
                        failing)
  IN [fs |-> r.fs, errors |-> r.errors, ret |-> TRUE]

\* lines 194-196: the call, and the warning when it returns False
GenerarDocumentacion(failing) ==
  /\ pc = "docs"
  /\ LET r == generate_documentation(fs, project_path, project_name,
                                     python_version, Clock, failing)
     IN /\ fs' = r.fs
        /\ log' = log \cup file_log(r, 1)
                      \cup {Log("INFO", "Documentacion generada exitosamente")}
                      \cup (IF r.ret THEN {}
                            ELSE {Log("WARNING", "No se pudo generar la documentacion completa")})
  /\ pc' = "post"
  /\ UNCHANGED <<entrada, project_name, python_version, project_path, valid,
                 created, post, status, out, procs, prompts, today, run, prev>>

----------------------------------------------------------------------------
(* post_process, _should_rollback and rollback_changes *)

\* a prompt that takes every answer for a yes
accepts_any(answer) == TRUE

\* input(...).strip().lower() == 's'
accepts(answer) == lower(strip(answer)) = <<"s">>

\* lines 294-314: the dependency prompt and the conda version probe
PostProcess(instalar, conda) ==
  /\ pc = "post"
  /\ entrada' = instalar
  /\ prompts' = prompts \cup {"instalar"}
  /\ log' = log \cup {Log("INFO", "Usando VS Code desde")}
  /\ IF ~accepts(instalar)
     THEN /\ pc' = "vscode"
          /\ UNCHANGED <<procs, out, post>>
     ELSE /\ procs' = Append(procs, <<"conda --version", conda>>)
          /\ IF conda = "ok"
             THEN /\ pc' = "conda_env"
                  /\ out' = out \cup {"Conda detectado"}
                  /\ UNCHANGED post
             ELSE /\ out' = out \cup {"Error: Conda no esta disponible."}
                  /\ post' = "False"
                  /\ pc' = "finish"
  /\ UNCHANGED <<project_name, python_version, project_path, fs, valid,
                 created, status, today, run, prev>>

\* subprocess.Popen(..., cwd=self.project_path) raises FileNotFoundError
\* when the directory or the program is missing
popen_outcome(f, root, rc) == IF is_dir(f, root) THEN rc ELSE "absent"

\* a process that is never found to have failed
installation_failed_never(o) == FALSE

\* if process.returncode != 0: raise CalledProcessError (lines 338-339 and
\* 362-363); a Popen that raised has failed as well
installation_failed(o) == o # "ok"

\* lines 316-339: conda env create, its output streamed until it exits
CondaEnvCreate(rc) ==
  /\ pc = "conda_env"
  /\ LET o == popen_outcome(fs, project_path, rc) IN
       /\ procs' = Append(procs, <<"conda env create", o>>)
       /\ log' = log \cup {Log("INFO", "Iniciando actualizacion del entorno Conda")}
                     \cup (CASE o = "ok" -> {}
                             [] o = "nonzero" -> {Log("ERROR", "Error durante la instalacion")}
                             [] o = "absent" -> {Log("ERROR", "Error durante el post-proceso")})
       /\ out' = out \cup (CASE o = "ok" -> {}
                             [] o = "nonzero" -> {"Error en el proceso"}
                             [] o = "absent" -> {"Error durante el post-proceso"})
       /\ pc' = IF installation_failed(o) THEN "rollback" ELSE "pip"
  /\ UNCHANGED <<entrada, project_name, python_version, project_path, fs,
                 valid, created, post, status, prompts, today, run, prev>>

\* lines 341-381: pip install, then the pre-commit set-up
PipInstall(rc, probe, install) ==
  /\ pc = "pip"
  /\ LET o == popen_outcome(fs, project_path, rc) IN
       /\ procs' = Append(procs, <<"pip install", o>>)
                     \o (IF o = "ok" THEN hook_calls(probe, install) ELSE <<>>)
       /\ log' = log \cup {Log("INFO", "Instalando dependencias con pip")}
                     \cup (CASE o = "ok" ->
                                 {IF hooks_installed(probe, install)
                                  THEN Log("INFO", "pre-commit hooks instalados exitosamente")
                                  ELSE Log("WARNING", "pre-commit no disponible, configuracion omitida")}
                             [] o = "nonzero" -> {Log("ERROR", "Error durante la instalacion")}
                             [] o = "absent" -> {Log("ERROR", "Error durante el post-proceso")})
       /\ out' = out \cup (CASE o = "ok" -> {}
                             [] o = "nonzero" -> {"Error en el proceso"}
                             [] o = "absent" -> {"Error durante el post-proceso"})
       /\ fs' = IF o = "ok" /\ hooks_installed(probe, install)
                   /\ is_dir(fs, Append(project_path, Str(".git")))
                THEN install_hooks(fs, project_path) ELSE fs
       /\ pc' = IF installation_failed(o) THEN "rollback" ELSE "vscode"
  /\ UNCHANGED <<entrada, project_name, python_version, project_path, valid,
                 created, post, status, prompts, today, run, prev>>

\* rollback_changes: the project directory is removed with all it holds
rollback_changes(f, root) ==
  IF exists(f, root) /\ root \in DOMAIN f /\ f[root].kind = "dir"
  THEN rmtree(f, root) ELSE f

\* _should_rollback, rollback_changes on 's', and post_process's return False
ShouldRollback(response) ==
  /\ pc = "rollback"
  /\ entrada' = response
  /\ prompts' = prompts \cup {"rollback"}
  /\ IF accepts(response)
     THEN /\ fs' = rollback_changes(fs, project_path)
          /\ out' = out \cup {"Revirtiendo cambios..."}
          /\ log' = log \cup {Log("INFO", "Iniciando rollback de cambios")}
                        \cup (IF ~exists(fs, project_path) THEN {Log("INFO", "Rollback completado exitosamente")}
                              ELSE IF fs[project_path].kind = "dir"
                              THEN {Log("INFO", "Directorio del proyecto eliminado"),
                                    Log("INFO", "Rollback completado exitosamente")}
                              ELSE {Log("ERROR", "Error durante el rollback")})
     ELSE UNCHANGED <<fs, out, log>>
  /\ post' = "False"
  /\ pc' = "finish"
  /\ UNCHANGED <<project_name, python_version, project_path, valid, created,
                 status, procs, today, run, prev>>

VSCodeDir(root) == Append(root, Str(".vscode"))
SettingsFile(root) == Append(VSCodeDir(root), Str("settings.json"))

\* the settings dictionary written by json.dump
settings_json(name) ==
  << L("terminal.integrated.defaultProfile.windows: PowerShell ... conda activate "),
     [k |-> "val", v |-> name] >>

\* lines 419-444: the editor's invocations.  With the editor at vscode_path
\* the second call follows a first that succeeded; on the fallback branch
\* time and doc_path are names bound only on the other branch, so the
\* statement after the first call raises UnboundLocalError
editor_calls(present, first, second, root) ==
  IF present
  THEN <<<<"code.cmd --new-window", first>>>>
       \o (IF first = "ok" THEN <<<<"code.cmd --reuse-window documentation.txt", second>>>>
           ELSE <<>>)
  ELSE <<<<"code --new-window", first>>>>

editor_raises(present, first, second) ==
  IF present THEN first # "ok" \/ second # "ok" ELSE TRUE

\* lines 390-451: the editor prompt, the workspace settings and the launch;
\* every exception is caught, printed and logged, and post_process returns True
AbrirVSCode(abrir, present, first, second) ==
  /\ pc = "vscode"
  /\ entrada' = abrir
  /\ prompts' = prompts \cup {"vscode"}
  /\ IF ~accepts(abrir)
     THEN /\ log' = log \cup {Log("INFO", "Post-proceso completado exitosamente")}
          /\ UNCHANGED <<fs, procs, out>>
     ELSE IF ~is_dir(fs, project_path)
             \/ (VSCodeDir(project_path) \in DOMAIN fs
                 /\ fs[VSCodeDir(project_path)].kind # "dir")
     THEN \* mkdir raises
          /\ log' = log \cup {Log("ERROR", "Error al abrir VS Code"),
                              Log("INFO", "Post-proceso completado exitosamente")}
          /\ out' = out \cup {"Error al abrir VS Code"}
          /\ UNCHANGED <<fs, procs>>
     ELSE LET d == makedirs(fs, VSCodeDir(project_path))
              w == write_ok(d, SettingsFile(project_path))
          IN /\ fs' = IF w THEN write_file(d, SettingsFile(project_path),
                                           settings_json(project_name))
                      ELSE d
             /\ procs' = IF w THEN procs \o editor_calls(present, first, second, project_path)
                         ELSE procs
             /\ IF ~w \/ editor_raises(present, first, second)
                THEN /\ log' = log \cup {Log("ERROR", "Error al abrir VS Code"),
                                         Log("INFO", "Post-proceso completado exitosamente")}
                     /\ out' = out \cup {"Error al abrir VS Code"}
                ELSE /\ log' = log \cup {Log("INFO", "VS Code abierto con terminal PowerShell y Conda"),
                                         Log("INFO", "Post-proceso completado exitosamente")}
                     /\ out' = out
  /\ post' = "True"
  /\ pc' = "finish"
  /\ UNCHANGED <<project_name, python_version, project_path, valid, created,
                 status, today, run, prev>>

\* lines 199-208: the warning on a failed post-process, the final summary,
\* the success message and return True; main returns 0
Finalizar ==
  /\ pc = "finish"
  /\ log' = log \cup (IF post = "False"
                      THEN {Log("WARNING", "No se completo el post-proceso correctamente")}
                      ELSE {})
                \cup {Log("INFO", "Resumen final mostrado al usuario"),
                      Log("INFO", "Proyecto creado exitosamente")}
  /\ out' = out \cup {"Proyecto creado exitosamente!",
                      "Estructura del proyecto creada exitosamente."}
  /\ created' = "True"
  /\ Return(0)
  /\ UNCHANGED <<entrada, project_name, python_version, project_path, fs,
                 valid, post, procs, prompts, today, run, prev>>

----------------------------------------------------------------------------
(* The console, the environment and the specifications *)

\* the answers typed at the s/N prompts
Respuestas == {<<>>, <<"s">>, <<" ", "S">>}

\* the answers typed at the S/n prompt
RespuestasSn == {<<>>, <<"n">>, <<"N">>}

\* what the pre-commit version probe may find
Probes == {"ok", "absent"}

\* the lines typed at the prompts of a whole run
ConsoleNombres == {<<>>, <<"1", "s">>, <<"s">>, <<" ", "g">>}
ConsoleVersiones == {<<>>, <<"3", ".", "5">>, <<"x">>}
ConsoleRutas ==
  {<<>>, <<"/", "d">>, <<"/", "l", "/">>, <<"/", "d", "/", "g">>, <<"/">>,
   <<"/", "s">>}

\* the writes the system may refuse
FaultCandidates ==
  {<<Str("README.md")>>, <<Str("documentation.txt")>>}

Faults(root) == {{}} \cup {{root \o p} : p \in FaultCandidates}

Next ==
  \/ \E linea \in ConsoleNombres : Input("nombre", linea)
  \/ SolicitarNombre
  \/ \E linea \in ConsoleVersiones : Input("version", linea)
  \/ SolicitarVersion
  \/ NewProjectGenerator
  \/ ValidateParameters
  \/ \E linea \in ConsoleRutas : Input("ruta", linea)
  \/ \E crear \in Respuestas : SolicitarRuta(crear)
  \/ \E sobrescribir \in Respuestas \cup {<<"S">>} :
       ConfirmarSobrescritura(sobrescribir)
  \/ \E confirmar \in RespuestasSn : ConfirmarCreacion(confirmar)
  \/ \E before \in clean_orders(fs, project_path) : LimpiarDirectorio(before)
  \/ CrearDirectorios
  \/ \E failing \in Faults(project_path) : CrearArchivosProyecto(failing)
  \/ \E failing \in Faults(project_path) : CrearArchivosVersionado(failing)
  \/ \E git \in Outcomes, probe \in Outcomes, install \in {"ok", "nonzero"} :
       InitGit(git, probe, install)
  \/ \E failing \in Faults(project_path) : GenerarDocumentacion(failing)
  \/ \E instalar \in Respuestas, conda \in Outcomes : PostProcess(instalar, conda)
  \/ \E rc \in {"ok", "nonzero"} : CondaEnvCreate(rc)
  \/ \E rc \in Outcomes, probe \in Probes, install \in {"ok", "nonzero"} :
       PipInstall(rc, probe, install)
  \/ \E response \in Respuestas : ShouldRollback(response)
  \/ \E abrir \in Respuestas, present \in BOOLEAN, first \in Outcomes,
        second \in {"ok", "nonzero"} : AbrirVSCode(abrir, present, first, second)
  \/ Finalizar

Spec == Init /\ [][Next]_vars

----------------------------------------------------------------------------
(* The name prompt on every line of at most MaxNombreLen characters *)

NombreChars == {"s", "g", "1", "_", " ", "-"}

InitNombre ==
  /\ pc = "nombre"
  /\ fs = BaseFS
  /\ InitCommon

NextNombre ==
  \/ \E linea \in Lineas(NombreChars, MaxNombreLen) : Input("nombre", linea)
  \/ SolicitarNombre

SpecNombre == InitNombre /\ [][NextNombre]_vars

(* The version prompt on every line of at most MaxVersionLen characters *)

VersionChars == {"3", "1", "2", "9", ".", "+", " "}

InitVersion ==
  /\ pc = "version"
  /\ fs = BaseFS
  /\ entrada = <<"s">>
  /\ project_name = <<"s">>
  /\ python_version = <<>>
  /\ project_path = <<>>
  /\ valid = "unset" /\ created = "unset" /\ post = "unset" /\ status = -1
  /\ log = {} /\ out = {} /\ procs = <<>> /\ prompts = {"nombre"}
  /\ today = 1 /\ run = 1
  /\ prev = [ok |-> FALSE, name |-> <<>>, version |-> <<>>, path |-> <<>>,
             day |-> 0, files |-> <<>>]

NextVersion ==
  \/ \E linea \in Lineas(VersionChars, MaxVersionLen) : Input("version", linea)
  \/ SolicitarVersion

SpecVersion == InitVersion /\ [][NextVersion]_vars

(* The path prompt of a generator built for the project s, on every line of *)
(* at most MaxRutaLen characters                                             *)

RutaChars == {"/", ".", "~", "d", "g", "l", "s"}

InitRuta ==
  /\ pc = "ruta"
  /\ fs \in {_setup_logging(BaseFS @@ t, <<"s">>) :
               t \in {x \in PriorTrees :
                        OldProject \in DOMAIN x =>
                          Append(OldProject, Str("lnk")) \in DOMAIN x}}
  /\ entrada = <<>>
  /\ project_name = <<"s">>
  /\ python_version = DefaultVersion
  /\ project_path = <<>>
  /\ valid = "unset" /\ created = "unset" /\ post = "unset" /\ status = -1
  /\ log = {Log("INFO", "Iniciando validacion de parametros"),
            Log("INFO", "Nombre de proyecto validado"),
            Log("INFO", "Version de Python validada")}
  /\ out = {} /\ procs = <<>> /\ prompts = {"nombre", "version"}
  /\ today = 1 /\ run = 1
  /\ prev = [ok |-> FALSE, name |-> <<>>, version |-> <<>>, path |-> <<>>,
             day |-> 0, files |-> <<>>]

NextRuta ==
  \/ \E linea \in Lineas(RutaChars, MaxRutaLen) : Input("ruta", linea)
  \/ \E crear \in Respuestas : SolicitarRuta(crear)

SpecRuta == InitRuta /\ [][NextRuta]_vars

(* Consecutive runs of the generator on one machine, without refused        *)
(* writes, with git present                                                  *)

\* the files beneath root, with their content
tree_files(f, root) ==
  [q \in {x \in DOMAIN f : in_parents(root, x) /\ f[x].kind = "file"} |->
     f[q].content]

\* the process has ended and the generator is started again, the same day
\* or a later one
Relaunch ==
  /\ pc = "exit"
  /\ run < MaxRuns
  /\ run' = run + 1
  /\ \E d \in today..MaxDay : today' = d
  /\ prev' = [ok |-> created = "True", name |-> project_name,
              version |-> python_version, path |-> project_path,
              day |-> today, files |-> tree_files(fs, project_path)]
  /\ pc' = "nombre"
  /\ entrada' = <<>>
  /\ project_name' = <<>>
  /\ python_version' = <<>>
  /\ project_path' = <<>>
  /\ valid' = "unset" /\ created' = "unset" /\ post' = "unset" /\ status' = -1
  /\ log' = {} /\ out' = {} /\ procs' = <<>> /\ prompts' = {}
  /\ UNCHANGED fs

NextTwice ==
  \/ Input("nombre", <<"s">>)
  \/ SolicitarNombre
  \/ \E linea \in {<<>>, <<"3", ".", "1", "2">>} : Input("version", linea)
  \/ SolicitarVersion
  \/ NewProjectGenerator
  \/ ValidateParameters
  \/ Input("ruta", <<"/", "d">>)
  \/ SolicitarRuta(<<>>)
  \/ \E sobrescribir \in {<<>>, <<"s">>} : ConfirmarSobrescritura(sobrescribir)
  \/ ConfirmarCreacion(<<>>)
  \/ \E before \in clean_orders(fs, project_path) : LimpiarDirectorio(before)
  \/ CrearDirectorios
  \/ CrearArchivosProyecto({})
  \/ CrearArchivosVersionado({})
  \/ \E probe \in Probes : InitGit("ok", probe, "ok")
  \/ GenerarDocumentacion({})
  \/ \E instalar \in {<<>>, <<"s">>} : PostProcess(instalar, "ok")
  \/ \E rc \in {"ok", "nonzero"} : CondaEnvCreate(rc)
  \/ PipInstall("ok", "ok", "ok")
  \/ \E response \in {<<>>, <<"s">>} : ShouldRollback(response)
  \/ \E abrir \in {<<>>, <<"s">>} : AbrirVSCode(abrir, TRUE, "ok", "ok")
  \/ Finalizar
  \/ Relaunch

SpecTwice == Init /\ [][NextTwice]_vars

----------------------------------------------------------------------------
(* Properties *)

\* a non-empty string of letters, digits and underscores that does not
\* start with a digit
ValidIdentifier(s) ==
  /\ Len(s) > 0
  /\ \A i \in 1..Len(s) : s[i] \in Letters \cup Digits \cup {"_"}
  /\ s[1] \notin Digits

\* the text of a line without the blanks around it
Trimmed(s) ==
  IF \A i \in 1..Len(s) : s[i] = " " THEN <<>>
  ELSE LET a == CHOOSE i \in 1..Len(s) :
                  s[i] # " " /\ \A j \in 1..(i - 1) : s[j] = " "
           b == CHOOSE i \in 1..Len(s) :
                  s[i] # " " /\ \A j \in (i + 1)..Len(s) : s[j] = " "
       IN SubSeq(s, a, b)

\* C1: solicitar_nombre_proyecto returns only a non-empty valid identifier;
\* a line that is empty or no identifier is never the returned name, and a
\* line whose text is empty or no identifier is rejected and the prompt is
\* repeated.
C1_NombreSoloIdentificador ==
  [][pc = "nombre_leido" =>
       /\ pc' \in {"nombre", "version"}
       /\ pc' = "version" =>
            /\ ValidIdentifier(project_name')
            /\ project_name' = Trimmed(entrada)
       /\ ~ValidIdentifier(entrada) /\ pc' = "version" => project_name' # entrada
       /\ ~ValidIdentifier(Trimmed(entrada)) =>
            pc' = "nombre" /\ project_name' = project_name]_vars

\* the prompt is shown again after a line was rejected, and no name is set
C1_Witness ==
  pc = "nombre" /\ "nombre" \in prompts /\ project_name = <<>>

\* the strings 3.6 ... 3.12
SupportedVersions ==
  { <<"3", ".", "6">>, <<"3", ".", "7">>, <<"3", ".", "8">>, <<"3", ".", "9">>,
    <<"3", ".", "1", "0">>, <<"3", ".", "1", "1">>, <<"3", ".", "1", "2">> }

\* C2: every version string that is not 3.N with N in 6..12 is rejected by
\* solicitar_version_python and the prompt is shown again; a blank line
\* returns the default 3.9.
C2_SoloVersionesSoportadas ==
  [][pc = "version_leida" =>
       /\ Trimmed(entrada) = <<>> =>
            pc' = "init" /\ python_version' = <<"3", ".", "9">>
       /\ Trimmed(entrada) # <<>> /\ Trimmed(entrada) \notin SupportedVersions =>
            pc' = "version" /\ python_version' = python_version]_vars

\* the install directory or a path beneath it
Beneath(p) ==
  /\ Len(p) >= Len(generator_path)
  /\ \A i \in 1..Len(generator_path) : p[i] = generator_path[i]

\* lines that name the install directory /d/g or a place in it: by its
\* path, with trailing separators, through the symbolic link /l, from the
\* working directory and from the home directory
AliasLines ==
  { <<"/", "d", "/", "g">>, <<"/", "l">>, <<"/", "l", "/">>, <<"/", "l", "/", "s">>,
    <<".">>, <<".", "/">>, <<"s">>, <<"s", "/">>, <<"~", "/", "g">>,
    <<"~", "/", "g", "/">>, <<".", ".", "/", "g">>, <<"/", "/", "l">>,
    <<"/", "l", "/", "/">>, <<"/", "l", "/", ".">> }

\* C3: a destination that resolves to the install directory or beneath it
\* is never returned by solicitar_ruta_proyecto: the line is rejected and the
\* prompt is shown again, whatever trailing separators or symbolic-link
\* aliases the typed path has.
C3_NuncaDentroDelGenerador ==
  [][pc = "ruta_leida" =>
       /\ (\/ Beneath(ruta_resolve(fs, Trimmed(entrada)).path)
           \/ Trimmed(entrada) \in AliasLines) =>
            pc' = "ruta" /\ project_path' = project_path /\ fs' = fs
       /\ pc' = "overwrite" =>
            /\ ~Beneath(project_path')
            /\ ~Beneath(SubSeq(project_path', 1, Len(project_path') - 1))]_vars

\* the loop has read a line that names the install directory through the
\* symbolic link, with a trailing separator
C3_Witness ==
  /\ pc = "ruta_leida"
  /\ entrada = <<"/", "l", "/">>
  /\ Beneath(ruta_resolve(fs, entrada).path)

\* what a directory holds, at any depth
Entries(f, root) ==
  {q \in DOMAIN f : Len(q) > Len(root) /\ SubSeq(q, 1, Len(root)) = root}

C5_LimpiaAntesDeCrear ==
  [][/\ pc \in {"overwrite", "confirm", "clean"} =>
          Entries(fs', project_path') \subseteq Entries(fs, project_path')
     /\ pc' = "mkdirs" =>
          pc = "clean" /\ Entries(fs', project_path') = {}
     /\ pc' \in {"files", "versioning", "git", "docs"} =>
          pc \in {"mkdirs", "files", "versioning", "git"}]_vars

\* the overwrite was accepted, the directory was cleaned and the skeleton is
\* about to be created
C5_Witness ==
  /\ pc = "mkdirs"
  /\ "sobrescribir" \in prompts
  /\ valid = "True"
  /\ Log("INFO", "Limpiando directorio existente") \in log
  /\ Entries(fs, project_path) = {}

\* git init was run and did not succeed
GitInitFailed ==
  \E i \in 1..Len(procs) : procs[i][1] = "git init" /\ procs[i][2] # "ok"

SuccessReported ==
  \/ "Estructura del proyecto creada exitosamente." \in out
  \/ Log("INFO", "Proyecto creado exitosamente") \in log
  \/ created = "True"
  \/ status = 0

\* C6: if git is unavailable or git init fails, _init_git raises,
\* create_project_structure returns False without printing or logging the
\* success message, and main returns a non-zero status.
C6_GitFallidoNoEsExito ==
  GitInitFailed =>
    /\ pc = "exit"
    /\ created = "False"
    /\ status = 1
    /\ Log("ERROR", "Error al inicializar Git") \in log
    /\ ~SuccessReported

\* the run ended after git was found missing
C6_Witness ==
  /\ pc = "exit"
  /\ \E i \in 1..Len(procs) : procs[i] = <<"git init", "absent">>
  /\ created = "False"

\* in _init_git, right after a successful git init, pre-commit was missing
\* or one of its two calls exited non-zero
HookFailedInInitGit ==
  \E i \in 1..Len(procs) :
    /\ procs[i] = <<"git init", "ok">>
    /\ i < Len(procs)
    /\ \/ procs[i + 1] \in {<<"pre-commit --version", "absent">>,
                            <<"pre-commit --version", "nonzero">>}
       \/ /\ i + 1 < Len(procs)
          /\ procs[i + 2] = <<"pre-commit install", "nonzero">>

\* C7: if pre-commit is absent or exits non-zero in _init_git, a warning is
\* logged and nothing else: _init_git does not raise, the remaining steps
\* run and create_project_structure returns True.
C7_HooksNoBloquean ==
  HookFailedInInitGit =>
    /\ Log("WARNING", "pre-commit no esta instalado, saltando configuracion de hooks") \in log
    /\ Log("ERROR", "Error al inicializar Git") \notin log
    /\ Log("ERROR", "Error durante la creacion del proyecto") \notin log
    /\ pc \in {"docs", "post", "conda_env", "pip", "rollback", "vscode",
               "finish", "exit"}
    /\ created # "False"
    /\ pc = "exit" =>
         /\ created = "True"
         /\ status = 0
         /\ Log("INFO", "Documentacion generada exitosamente") \in log
         /\ "instalar" \in prompts

\* the run ended in success although pre-commit install exited non-zero
C7_Witness ==
  /\ pc = "exit"
  /\ created = "True"
  /\ \E i \in 1..Len(procs) :
       /\ procs[i] = <<"git init", "ok">>
       /\ i + 1 < Len(procs)
       /\ procs[i + 2] = <<"pre-commit install", "nonzero">>

\* C8: main returns 0 exactly when validate_parameters and
\* create_project_structure both returned True, and non-zero when either
\* failed; after a failed validation create_project_structure is not called.
C8_EstadoDeSalida ==
  /\ pc = "exit" =>
       /\ status \in {0, 1}
       /\ status = 0 <=> (valid = "True" /\ created = "True")
       /\ valid \in {"True", "False"}
       /\ valid = "True" => created \in {"True", "False"}
  /\ valid = "False" =>
       /\ pc = "exit"
       /\ status = 1
       /\ created = "unset"
       /\ "continuar" \notin prompts
  /\ created = "False" => pc = "exit" /\ status = 1
  /\ created # "unset" => valid = "True"

\* a run that ended with status 1 because the creation was cancelled
C8_Witness ==
  /\ pc = "exit"
  /\ status = 1
  /\ valid = "True"
  /\ created = "False"

\* the relative paths of the static template files
TemplatePaths ==
  {file_templates[i].path : i \in 1..Len(file_templates)}
    \cup {versioning_files[i].path : i \in 1..Len(versioning_files)}

\* a second run has ended in success on the name, version and destination of
\* a first run that ended in success
SecondRunSameInputs ==
  /\ pc = "exit"
  /\ run > 1
  /\ created = "True"
  /\ prev.ok
  /\ project_name = prev.name
  /\ python_version = prev.version
  /\ project_path = prev.path

SameAsFirstRun(rel) ==
  LET q == project_path \o rel IN
    (q \in DOMAIN prev.files /\ q \in DOMAIN fs) =>
      fs[q].kind = "file" /\ fs[q].content = prev.files[q]

\* C9 as stated: running the generator twice with the same name, version and
\* destination leaves every static template file (every generated file but
\* documentation.txt) with the same content after the second run as after
\* the first.
C9_Idempotente ==
  SecondRunSameInputs => \A rel \in TemplatePaths : SameAsFirstRun(rel)

\* C9, amended: every static template file but src/main.py has the same
\* content after the second run as after the first; src/main.py carries the
\* date of the run in its header and is the same only when both runs fall on
\* the same date. Without a rollback the second run leaves every template
\* file in place.
C9_IdempotenteSalvoFecha ==
  SecondRunSameInputs =>
    /\ \A rel \in TemplatePaths \ {<< <<"src">>, <<"main.py">> >>} :
         SameAsFirstRun(rel)
    /\ today = prev.day => SameAsFirstRun(<< <<"src">>, <<"main.py">> >>)
    /\ "rollback" \notin prompts =>
         \A rel \in TemplatePaths :
           /\ (project_path \o rel) \in DOMAIN fs
           /\ fs[project_path \o rel].kind = "file"

\* a second successful run on the inputs of the first, on a later day, with
\* the files of both runs on disk
C9_Witness ==
  /\ SecondRunSameInputs
  /\ today > prev.day
  /\ \A rel \in TemplatePaths :
       /\ (project_path \o rel) \in DOMAIN prev.files
       /\ (project_path \o rel) \in DOMAIN fs

HasFields(tpl) == \E i \in 1..Len(tpl) : tpl[i].k = "field"

\* the file holds no placeholder left as written and holds a value for
\* each field of its template
Interpolated(content, tpl) ==
  /\ \A i \in 1..Len(content) : content[i].k # "brace"
  /\ Len(content) = Len(tpl)
  /\ \A i \in 1..Len(tpl) :
       tpl[i].k = "field" =>
         /\ content[i].k = "val"
         /\ content[i].v \in {project_name, python_version,
                              SelectSeq(python_version, LAMBDA c : c # "."),
                              <<ToString(today)>>}

\* C10: each generated file whose template has fields contains the project
\* name and Python version given by the user in place of its placeholders.
C10_ValoresInterpolados ==
  (pc = "exit" /\ created = "True") =>
    \A tpl \in {file_templates[i] : i \in 1..Len(file_templates)}
               \cup {versioning_files[i] : i \in 1..Len(versioning_files)} :
      LET q == project_path \o tpl.path IN
        (HasFields(tpl.text) /\ q \in DOMAIN fs /\ fs[q].kind = "file") =>
          Interpolated(fs[q].content, tpl.text)

\* the accept token of the s/N prompts, as the user may type it
AcceptToken(answer) == Trimmed(answer) \in {<<"s">>, <<"S">>}

\* C11: rollback is never automatic: the project directory is deleted only
\* by the step that showed the rollback prompt and read the accept token;
\* on the accept token the project directory goes with all it holds, and on
\* any other answer, blank included, nothing is deleted or changed.
C11_RollbackNuncaAutomatico ==
  [][/\ (project_path \in DOMAIN fs /\ project_path \notin DOMAIN fs') =>
          /\ pc = "rollback"
          /\ "rollback" \in prompts'
          /\ AcceptToken(entrada')
     /\ (pc = "rollback" /\ pc' # pc /\ AcceptToken(entrada')) =>
          /\ project_path \notin DOMAIN fs'
          /\ Entries(fs', project_path) = {}
          /\ \A q \in DOMAIN fs :
               (q # project_path /\ q \notin Entries(fs, project_path)) =>
                 (q \in DOMAIN fs' /\ fs'[q] = fs[q])
     /\ (pc = "rollback" /\ pc' # pc /\ ~AcceptToken(entrada')) => fs' = fs
     /\ (pc \in {"post", "conda_env", "pip", "vscode", "finish"}) =>
          DOMAIN fs \subseteq DOMAIN fs']_vars

\* the rollback prompt was answered with the accept token and the project
\* directory is gone
C11_Witness ==
  /\ pc = "finish"
  /\ "rollback" \in prompts
  /\ AcceptToken(entrada)
  /\ project_path \notin DOMAIN fs
  /\ Log("INFO", "Directorio del proyecto eliminado") \in log

\* the external programs run so far, by name and by outcome
Ran(program) == \E i \in 1..Len(procs) : procs[i][1] = program
RanWith(program, outcome) ==
  \E i \in 1..Len(procs) : procs[i] = <<program, outcome>>

\* C12: with the installation accepted and conda present, a non-zero exit of
\* conda env create or of pip install leads to the rollback prompt and to
\* post_process returning False, and after a non-zero conda env create
\* pip install is never started.
C12_FalloDeInstalacion ==
  /\ (RanWith("conda env create", "nonzero")
        \/ RanWith("pip install", "nonzero")) =>
       /\ RanWith("conda --version", "ok")
       /\ "instalar" \in prompts
       /\ pc \in {"rollback", "finish", "exit"}
       /\ pc # "rollback" => ("rollback" \in prompts /\ post = "False")
       /\ "vscode" \notin prompts
  /\ RanWith("conda env create", "nonzero") => ~Ran("pip install")

\* pip install exited non-zero, the rollback prompt was shown and the run
\* went on to its end
C12_Witness ==
  /\ pc = "exit"
  /\ RanWith("conda env create", "ok")
  /\ RanWith("pip install", "nonzero")
  /\ "rollback" \in prompts
  /\ post = "False"

\* C13: when the installation is accepted and the conda version probe
\* fails, only the installation is given up: conda env create and pip
\* install are not started, and the editor prompt is still shown.
C13_SoloSeAbortaLaInstalacion ==
  (/\ pc \in {"finish", "exit"}
   /\ \/ RanWith("conda --version", "absent")
      \/ RanWith("conda --version", "nonzero")) =>
    /\ ~Ran("conda env create")
    /\ ~Ran("pip install")
    /\ "vscode" \in prompts

\* a write was refused and a static template file is missing from the
\* project directory
TemplateFileMissing ==
  /\ Log("ERROR", "Error al crear archivo") \in log
  /\ is_dir(fs, project_path)
  /\ \E rel \in TemplatePaths : (project_path \o rel) \notin DOMAIN fs

\* C14: a failed write of a template or configuration file is logged and
\* the files after it are still written, but create_project_structure then
\* returns False, not True.
C14_EscrituraFallidaEsFracaso ==
  /\ (pc \in {"git", "docs", "post"} /\ TemplateFileMissing) =>
       Cardinality({rel \in TemplatePaths :
                      (project_path \o rel) \notin DOMAIN fs}) = 1
  /\ (pc = "exit" /\ TemplateFileMissing) =>
       (created = "False" /\ status = 1)

DocPath == project_path \o documentation_template.path

\* generate_documentation has run and documentation.txt was not written
DocumentationMissing ==
  /\ pc = "post" \/ "instalar" \in prompts
  /\ is_dir(fs, project_path)
  /\ DocPath \notin DOMAIN fs

\* C15: if the write of documentation.txt fails, generate_documentation
\* returns False, create_project_structure logs the warning about the
\* incomplete documentation, and the creation goes on to post-processing
\* and ends in success.
C15_DocumentacionFallidaAvisa ==
  DocumentationMissing =>
    /\ Log("WARNING", "No se pudo generar la documentacion completa") \in log
    /\ pc = "exit" => (created = "True" /\ status = 0)

\* C16: after a first editor call (new window on the project directory)
\* that succeeded, a second call opening documentation.txt in the same
\* window is always issued, with the editor at its known path and with the
\* command found on the search path.
C16_SegundaLlamadaAlEditor ==
  \A i \in 1..Len(procs) :
    /\ procs[i] = <<"code.cmd --new-window", "ok">> =>
         /\ i < Len(procs)
         /\ procs[i + 1][1] = "code.cmd --reuse-window documentation.txt"
    /\ procs[i] = <<"code --new-window", "ok">> =>
         /\ i < Len(procs)
         /\ procs[i + 1][1] = "code --reuse-window documentation.txt"

\* C17: for every name and destination that pass validation, the project
\* path is not the install directory and is not inside it.
C17_ProyectoFueraDelGenerador ==
  valid = "True" => ~Beneath(project_path)

\* C18: when create_project_structure returns True and main returns 0 the
\* project directory and its skeleton are on disk, and no run in which a
\* rollback was accepted ends in success.
C18_ExitoImplicaProyecto ==
  (pc = "exit" /\ created = "True" /\ status = 0) =>
    /\ \A i \in 1..Len(directories(project_path)) :
         is_dir(fs, directories(project_path)[i])
    /\ Log("INFO", "Iniciando rollback de cambios") \notin log

====
